---------------------------- MODULE Spec2Model ----------------------------
(***************************************************************************)
(* A model of mlfaker/demo_dynamics.py: DynamicGraph / LinearGraph /       *)
(* HeatFlowGraph, the Simulation driver and the __main__ demo.             *)
(*                                                                         *)
(* Node uids (uuid4 values) are modelled as small integers with their      *)
(* natural order.  A pd.Series is a record [idx, vals]: the index labels   *)
(* and the values, position by position.  Floating point values are        *)
(* modelled as exact rationals << numerator, denominator >> in lowest      *)
(* terms; edge weights are integers.  Python's None is the empty sequence  *)
(* and a present optional value x is << x >>.  Matrix and list indices are *)
(* 1-based here, 0-based in the source.                                    *)
(***************************************************************************)
EXTENDS Integers, Sequences, FiniteSets, TLC

\* ----- bounds of the model -----
NumIds == 2
NumUuids == 3
MaxW == 2
MaxSteps == 2
MaxNum == 2
MaxDen == 2

\* ----- program constants -----
DefaultWeight == 1
DemoSteps == 4
HotValue == 10

Ids == 1..NumIds
Uuids == 1..NumUuids
Weights == 1..MaxW
StepArgs == 0..MaxSteps

None == << >>
Some(x) == << x >>
Get(o) == o[1]

\* ----- exact rational arithmetic standing for the float arithmetic -----
Abs(x) == IF x < 0 THEN -x ELSE x

RECURSIVE GCD(_, _)
GCD(x, y) == IF y = 0 THEN x ELSE GCD(y, x % y)

Rat(n, d) ==
    LET g == GCD(Abs(n), d)
    IN  << n \div g, d \div g >>

FromInt(n) == << n, 1 >>
RAdd(p, q) == Rat(p[1] * q[2] + q[1] * p[2], p[2] * q[2])
RScale(w, q) == Rat(w * q[1], q[2])
RDivInt(q, n) == Rat(q[1], q[2] * n)

\* ----- lists -----
Min(S) == CHOOSE x \in S : \A y \in S : x <= y

RECURSIVE sorted(_)
sorted(S) == IF S = {} THEN << >> ELSE << Min(S) >> \o sorted(S \ {Min(S)})

RECURSIVE Insert(_, _)
Insert(x, s) ==
    IF s = << >> THEN << x >>
    ELSE IF x < Head(s) THEN << x >> \o s
    ELSE << Head(s) >> \o Insert(x, Tail(s))

RECURSIVE sorted_list(_)
sorted_list(s) == IF s = << >> THEN << >> ELSE Insert(Head(s), sorted_list(Tail(s)))

Range(s) == { s[i] : i \in 1..Len(s) }


\* ----- pd.Series -----
Series(idx, vals) == [idx |-> idx, vals |-> vals]
EmptySeries == Series(<< >>, << >>)

InjSeqs(n) == { s \in [1..n -> Ids] : \A i, j \in 1..n : i # j => s[i] # s[j] }
IndexLists == UNION { InjSeqs(n) : n \in 0..NumIds }
InVals == { FromInt(0), FromInt(1) }
Vectors == UNION { { Series(s, x) : x \in [1..Len(s) -> InVals] } : s \in IndexLists }

VARIABLES kind, nodes, adj, M, N, sim, last, pc, a, b, c, k, printed
vars == << kind, nodes, adj, M, N, sim, last, pc, a, b, c, k, printed >>
demo_vars == << pc, a, b, c, k, printed >>

\* What the last call was and how it ended: its arguments, the Series it
\* returned and the exception it raised ("" for none).
NoCall == [op |-> "init", u |-> 0, v |-> 0, w |-> 0, steps |-> 0,
           inp |-> EmptySeries, out |-> EmptySeries, err |-> ""]

\* ----- DynamicGraph -----
\* `u in self.adj` tests a Node object against a dict keyed by uuids: Node
\* defines neither __eq__ nor __hash__, so no key ever equals it.
KeyEqualsNode(key, uid) == FALSE
NodeInAdj(adj_, uid) == \E key \in DOMAIN adj_ : KeyEqualsNode(key, uid)

DynamicGraph_add_node(nodes_, uid) == nodes_ \cup {uid}

DynamicGraph_add_edge(adj_, u, v, w) ==
    IF NodeInAdj(adj_, u)
    THEN [adj_ EXCEPT ![u] = (v :> w) @@ @]
    ELSE (u :> (v :> w)) @@ adj_

\* ----- LinearGraph / HeatFlowGraph -----
zeros(n) == [i \in 1..n |-> [j \in 1..n |-> 0]]

index_map(nodes_) ==
    LET order == sorted(nodes_)
    IN  [uid \in nodes_ |-> CHOOSE i \in 1..Len(order) : order[i] = uid]

\* The loop `for i, u in enumerate(self.N): for v, w in self.adj[u].items()`
\* from row i on; self.adj[u] raises KeyError when u was never a source, and
\* the rows written before it stay in the matrix.
RECURSIVE fill_rows(_, _, _, _, _)
fill_rows(i, order, idx, adj_, mat) ==
    IF i > Len(order) THEN [M |-> mat, err |-> ""]
    ELSE LET u == order[i]
         IN  IF u \notin DOMAIN adj_ THEN [M |-> mat, err |-> "KeyError"]
             ELSE IF \E v \in DOMAIN adj_[u] : v \notin DOMAIN idx
                  THEN [M |-> mat, err |-> "KeyError"]
             ELSE fill_rows(i + 1, order, idx, adj_,
                     [mat EXCEPT ![i] =
                        [j \in 1..Len(order) |->
                            IF order[j] \in DOMAIN adj_[u]
                            THEN adj_[u][order[j]] ELSE @[j]]])

build_result(N_, r) == [N |-> N_, M |-> r.M, err |-> r.err]

LinearGraph_build(nodes_, adj_) ==
    build_result(index_map(nodes_),
                 fill_rows(1, sorted(nodes_), index_map(nodes_), adj_,
                           zeros(Cardinality(nodes_))))

RECURSIVE row_sum(_, _)
row_sum(row, j) == IF j = 0 THEN 0 ELSE row[j] + row_sum(row, j - 1)

\* np.where(degrees > 0, degrees, np.ones(n)), one entry
where_positive(d) == IF d > 0 THEN d ELSE 1

degree(row) == where_positive(row_sum(row, Len(row)))

\* lines 144-146, reached only when the fill loop did not raise
laplacian_result(N_, r) ==
    IF r.err # "" THEN [N |-> N_, M |-> r.M, err |-> r.err]
    ELSE [N |-> N_,
          M |-> [i \in 1..Len(r.M) |-> [j \in 1..Len(r.M) |->
                    IF i = j THEN r.M[i][j] - degree(r.M[i]) ELSE r.M[i][j]]],
          err |-> ""]

HeatFlowGraph_build(nodes_, adj_) ==
    laplacian_result(index_map(nodes_),
                     fill_rows(1, sorted(nodes_), index_map(nodes_), adj_,
                               zeros(Cardinality(nodes_))))

build(kind_, nodes_, adj_) ==
    IF kind_ = "HeatFlowGraph" THEN HeatFlowGraph_build(nodes_, adj_)
    ELSE LinearGraph_build(nodes_, adj_)

RECURSIVE dot(_, _, _)
dot(row, x, j) ==
    IF j = 0 THEN FromInt(0) ELSE RAdd(dot(row, x, j - 1), RScale(row[j], x[j]))

matmul(mat, x) == [i \in 1..Len(mat) |-> dot(mat[i], x, Len(x))]

as_cache(r) == [N |-> Some(r.N), M |-> Some(r.M), err |-> r.err]

\* `if self.M is None: self._build()`: the cache the multiplication reads,
\* and the exception of _build, if any
ensure_built(kind_, M_, N_, nodes_, adj_) ==
    IF M_ # None THEN [N |-> N_, M |-> M_, err |-> ""]
    ELSE as_cache(build(kind_, nodes_, adj_))

\* pd.Series(np.matmul(...)) without index=state.index: labelled 0..n-1
multiply_range_index(bld, state) ==
    IF bld.err # ""
    THEN [M |-> bld.M, N |-> bld.N, out |-> EmptySeries, err |-> bld.err]
    ELSE IF Len(Get(bld.M)) # Len(state.vals)
    THEN [M |-> bld.M, N |-> bld.N, out |-> EmptySeries, err |-> "DimensionError"]
    ELSE [M |-> bld.M, N |-> bld.N,
          out |-> Series([i \in 1..Len(state.idx) |-> i - 1],
                         matmul(Get(bld.M), state.vals)),
          err |-> ""]

LinearGraph_evolve_range_index(kind_, M_, N_, nodes_, adj_, state) ==
    multiply_range_index(ensure_built(kind_, M_, N_, nodes_, adj_), state)

\* `return pd.Series(np.matmul(self.M, state.values), index=state.index)` on
\* the cache bld: np.matmul raises when the lengths disagree
multiply(bld, state) ==
    IF bld.err # ""
    THEN [M |-> bld.M, N |-> bld.N, out |-> EmptySeries, err |-> bld.err]
    ELSE IF Len(Get(bld.M)) # Len(state.vals)
    THEN [M |-> bld.M, N |-> bld.N, out |-> EmptySeries, err |-> "DimensionError"]
    ELSE [M |-> bld.M, N |-> bld.N,
          out |-> Series(state.idx, matmul(Get(bld.M), state.vals)), err |-> ""]

\* LinearGraph.evolve on the cache (M_, N_): the cache after the call, the
\* returned Series and the exception raised, if any.
LinearGraph_evolve(kind_, M_, N_, nodes_, adj_, state) ==
    multiply(ensure_built(kind_, M_, N_, nodes_, adj_), state)

\* `return state + delta / len(self.N)`
euler_step(delta, state) ==
    IF delta.err # "" THEN delta
    ELSE [delta EXCEPT !.out =
            Series(state.idx,
                   [i \in 1..Len(state.vals) |->
                      RAdd(state.vals[i],
                           RDivInt(delta.out.vals[i],
                                   Cardinality(DOMAIN Get(delta.N))))])]

HeatFlowGraph_evolve(kind_, M_, N_, nodes_, adj_, state) ==
    euler_step(LinearGraph_evolve(kind_, M_, N_, nodes_, adj_, state), state)

evolve(kind_, M_, N_, nodes_, adj_, state) ==
    IF kind_ = "HeatFlowGraph"
    THEN HeatFlowGraph_evolve(kind_, M_, N_, nodes_, adj_, state)
    ELSE LinearGraph_evolve(kind_, M_, N_, nodes_, adj_, state)

\* ----- Simulation -----
\* _validate_state testing `nodes <= idx` in place of `nodes == idx`
validate_state_subset(nodes_, state) ==
    IF ~(nodes_ \subseteq Range(state.idx)) THEN "AlignmentError"
    ELSE IF state.idx # sorted_list(state.idx) THEN "OrderingError"
    ELSE ""

Simulation_validate_state(nodes_, state) ==
    IF nodes_ # Range(state.idx) THEN "AlignmentError"
    ELSE IF state.idx # sorted_list(state.idx) THEN "OrderingError"
    ELSE ""

RECURSIVE run_loop_extra_step(_, _, _, _, _, _, _, _)
RECURSIVE run_loop(_, _, _, _, _, _, _, _)

\* `self.state = self.graph.evolve(self.state)` with r the outcome of evolve,
\* then the rest of the loop: an exception of evolve leaves self.state as the
\* last completed step set it.
assign_state(i, steps, kind_, nodes_, adj_, state, r) ==
    IF r.err # "" THEN [M |-> r.M, N |-> r.N, state |-> state, err |-> r.err]
    ELSE run_loop(i + 1, steps, kind_, r.M, r.N, nodes_, adj_, r.out)

assign_state_extra_step(i, steps, kind_, nodes_, adj_, state, r) ==
    IF r.err # "" THEN [M |-> r.M, N |-> r.N, state |-> state, err |-> r.err]
    ELSE run_loop_extra_step(i + 1, steps, kind_, r.M, r.N, nodes_, adj_, r.out)

\* Simulation.run looping over range(steps + 1)
run_loop_extra_step(i, steps, kind_, M_, N_, nodes_, adj_, state) ==
    IF i > steps + 1 THEN [M |-> M_, N |-> N_, state |-> state, err |-> ""]
    ELSE assign_state_extra_step(i, steps, kind_, nodes_, adj_, state,
                                 evolve(kind_, M_, N_, nodes_, adj_, state))

\* `for _ in range(steps)` from iteration i on
run_loop(i, steps, kind_, M_, N_, nodes_, adj_, state) ==
    IF i > steps THEN [M |-> M_, N |-> N_, state |-> state, err |-> ""]
    ELSE assign_state(i, steps, kind_, nodes_, adj_, state,
                      evolve(kind_, M_, N_, nodes_, adj_, state))

Simulation_run(steps, kind_, M_, N_, nodes_, adj_, state) ==
    IF ~(steps > 0)
    THEN [M |-> M_, N |-> N_, state |-> state, err |-> "ArgumentError"]
    ELSE run_loop(1, steps, kind_, M_, N_, nodes_, adj_, state)

Bounded(state) ==
    \A i \in 1..Len(state.vals) :
        Abs(state.vals[i][1]) <= MaxNum /\ state.vals[i][2] <= MaxDen

\* ----- the calls as state changes -----
add_node(uid) ==
    /\ M' = None
    /\ N' = None
    /\ nodes' = DynamicGraph_add_node(nodes, uid)
    /\ last' = [NoCall EXCEPT !.op = "add_node", !.u = uid]
    /\ UNCHANGED << kind, adj, sim >>

add_edge(u, v, w) ==
    /\ M' = None
    /\ N' = None
    /\ nodes' = DynamicGraph_add_node(DynamicGraph_add_node(nodes, u), v)
    /\ adj' = DynamicGraph_add_edge(adj, u, v, w)
    /\ last' = [NoCall EXCEPT !.op = "add_edge", !.u = u, !.v = v, !.w = w]
    /\ UNCHANGED << kind, sim >>

\* a direct call of evolve that ended as r
evolved(state, r) ==
    /\ M' = r.M
    /\ N' = r.N
    /\ last' = [NoCall EXCEPT !.op = "evolve", !.inp = state,
                              !.out = r.out, !.err = r.err]
    /\ UNCHANGED << kind, nodes, adj, sim >>

graph_evolve(state) == evolved(state, evolve(kind, M, N, nodes, adj, state))

\* Simulation(graph, state) whose validation ended as err
constructed(state, err) ==
    /\ sim' = IF err = "" THEN Some(state) ELSE sim
    /\ last' = [NoCall EXCEPT !.op = "construct", !.inp = state, !.err = err]
    /\ UNCHANGED << kind, nodes, adj, M, N >>

Simulation_init(state) == constructed(state, Simulation_validate_state(nodes, state))

\* sim.run(steps) that ended as r
ran(steps, r) ==
    /\ M' = r.M
    /\ N' = r.N
    /\ sim' = Some(r.state)
    /\ last' = [NoCall EXCEPT !.op = "run", !.steps = steps, !.err = r.err]
    /\ UNCHANGED << kind, nodes, adj >>

sim_run(steps) == ran(steps, Simulation_run(steps, kind, M, N, nodes, adj, Get(sim)))

\* the values the model follows
bounded_run(steps, r) == Bounded(r.state) /\ ran(steps, r)

\* ----- a caller of the library: any call, in any order -----
Lib == pc = "lib"

AddNode(uid) == Lib /\ add_node(uid) /\ UNCHANGED demo_vars

AddEdge(u, v, w) == Lib /\ add_edge(u, v, w) /\ UNCHANGED demo_vars

Evolve(state) == Lib /\ graph_evolve(state) /\ UNCHANGED demo_vars

Construct(state) == Lib /\ Simulation_init(state) /\ UNCHANGED demo_vars

Run(steps) ==
    /\ Lib
    /\ sim # None
    /\ bounded_run(steps, Simulation_run(steps, kind, M, N, nodes, adj, Get(sim)))
    /\ UNCHANGED demo_vars

InitLib ==
    /\ kind \in {"LinearGraph", "HeatFlowGraph"}
    /\ nodes = {}
    /\ adj = << >>
    /\ M = None
    /\ N = None
    /\ sim = None
    /\ last = NoCall
    /\ pc = "lib"
    /\ a = 0 /\ b = 0 /\ c = 0 /\ k = 0
    /\ printed = << >>

\* The state vectors handed to a direct evolve call: aligned with the node
\* registry, or one entry short of it.
EvolveInputs ==
    { x \in Vectors : \/ x.idx = sorted(nodes)
                      \/ /\ nodes # {}
                         /\ x.idx = SubSeq(sorted(nodes), 1, Cardinality(nodes) - 1) }

Next ==
    \/ \E uid \in Ids : AddNode(uid)
    \/ \E u, v \in Ids, w \in Weights : AddEdge(u, v, w)
    \/ \E state \in EvolveInputs : Evolve(state)

Spec == InitLib /\ [][Next]_vars

\* The state vectors handed to the Simulation constructor: under every index
\* list the vector of unit values and, where the validation accepts the index,
\* also the vector with the first node hot (the values play no part in the
\* validation).
Ones(n) == [i \in 1..n |-> FromInt(1)]
Hot(n) == [i \in 1..n |-> IF i = 1 THEN FromInt(1) ELSE FromInt(0)]
ConstructInputs ==
    { Series(s, Ones(Len(s))) : s \in IndexLists }
        \cup { Series(sorted(nodes), Hot(Cardinality(nodes))) }

SimNext ==
    \/ \E uid \in Ids : AddNode(uid)
    \/ \E u, v \in Ids : AddEdge(u, v, DefaultWeight)
    \/ \E state \in ConstructInputs : Construct(state)
    \/ \E steps \in StepArgs : Run(steps)

SimSpec == InitLib /\ [][SimNext]_vars

\* ----- the __main__ demo -----
\* Series(values, index=[...]).sort_index(), for an index without duplicates
sort_index(series) ==
    LET order == sorted(Range(series.idx))
        pos(uid) == CHOOSE i \in 1..Len(series.idx) : series.idx[i] = uid
    IN  Series(order, [i \in 1..Len(order) |-> series.vals[pos(order[i])]])

OscillatorInitial == sort_index(Series(<< a, b >>, << FromInt(1), FromInt(0) >>))
EigenstateInitial == sort_index(Series(<< a, b >>, << FromInt(1), FromInt(1) >>))
HeatInitial ==
    sort_index(Series(<< a, b, c >>, << FromInt(HotValue), FromInt(0), FromInt(0) >>))

\* An uncaught exception ends the script.
after(ok_pc) == IF last'.err = "" THEN ok_pc ELSE "crashed"

DemoEdge(at, u, v, then) ==
    /\ pc = at
    /\ add_edge(u, v, DefaultWeight)
    /\ pc' = then
    /\ UNCHANGED << a, b, c, k, printed >>

DemoSimulation(at, initial_state, then) ==
    /\ pc = at
    /\ Simulation_init(initial_state)
    /\ pc' = after(then)
    /\ k' = 0
    /\ printed' = << initial_state >>
    /\ UNCHANGED << a, b, c >>

DemoRun(at, then) ==
    /\ pc = at
    /\ k < DemoSteps
    /\ sim_run(1)
    /\ pc' = after(IF k + 1 = DemoSteps THEN then ELSE at)
    /\ k' = k + 1
    /\ printed' = IF last'.err = "" THEN Append(printed, Get(sim')) ELSE printed
    /\ UNCHANGED << a, b, c >>

OscEdgeAB == DemoEdge("osc_edge_ab", a, b, "osc_edge_ba")
OscEdgeBA == DemoEdge("osc_edge_ba", b, a, "osc_sim")
OscSim == DemoSimulation("osc_sim", OscillatorInitial, "osc_run")
OscRun == DemoRun("osc_run", "eig_sim")
EigSim == DemoSimulation("eig_sim", EigenstateInitial, "eig_run")
EigRun == DemoRun("eig_run", "heat_new")

HeatNew ==
    /\ pc = "heat_new"
    /\ kind' = "HeatFlowGraph"
    /\ nodes' = {}
    /\ adj' = << >>
    /\ M' = None
    /\ N' = None
    /\ \E x, y, z \in Uuids :
          /\ x # y /\ x # z /\ y # z
          /\ a' = x /\ b' = y /\ c' = z
    /\ pc' = "heat_edge_ab"
    /\ UNCHANGED << sim, last, k, printed >>

HeatEdgeAB == DemoEdge("heat_edge_ab", a, b, "heat_edge_ba")
HeatEdgeBA == DemoEdge("heat_edge_ba", b, a, "heat_edge_ac")
HeatEdgeAC == DemoEdge("heat_edge_ac", a, c, "heat_edge_ca")
HeatEdgeCA == DemoEdge("heat_edge_ca", c, a, "heat_sim")
HeatSim == DemoSimulation("heat_sim", HeatInitial, "heat_run")
HeatRun == DemoRun("heat_run", "done")

InitDemo ==
    /\ kind = "LinearGraph"
    /\ nodes = {}
    /\ adj = << >>
    /\ M = None
    /\ N = None
    /\ sim = None
    /\ last = NoCall
    /\ pc = "osc_edge_ab"
    /\ a \in Uuids /\ b \in Uuids /\ a # b
    /\ c = 0 /\ k = 0
    /\ printed = << >>

DemoNext ==
    \/ OscEdgeAB \/ OscEdgeBA \/ OscSim \/ OscRun
    \/ EigSim \/ EigRun
    \/ HeatNew
    \/ HeatEdgeAB \/ HeatEdgeBA \/ HeatEdgeAC \/ HeatEdgeCA \/ HeatSim \/ HeatRun

DemoSpec == InitDemo /\ [][DemoNext]_vars

\* ======================= the claims =======================
RSub(p, q) == RAdd(p, RScale(-1, q))
RAbs(q) == << Abs(q[1]), q[2] >>
RLeq(p, q) == p[1] * q[2] <= q[1] * p[2]

RECURSIVE RSum(_, _)
RSum(x, j) == IF j = 0 THEN FromInt(0) ELSE RAdd(RSum(x, j - 1), x[j])

\* zero-based rank of a uid among the registered uids, plus one
Rank(uid) == Cardinality({ x \in nodes : x < uid }) + 1

HasEdge(adj_, x, y) == x \in DOMAIN adj_ /\ y \in DOMAIN adj_[x]
EdgeOf(adj_, x, y) == IF HasEdge(adj_, x, y) THEN Some(adj_[x][y]) ELSE None
WeightOf(adj_, x, y) == IF HasEdge(adj_, x, y) THEN adj_[x][y] ELSE 0

\* the matrix the registry and the adjacency stand for
RawMatrix ==
    LET order == sorted(nodes)
    IN  [i \in 1..Len(order) |-> [j \in 1..Len(order) |->
            WeightOf(adj, order[i], order[j])]]

OutDegree(row) == IF row_sum(row, Len(row)) = 0 THEN 1 ELSE row_sum(row, Len(row))

Compiled ==
    IF kind = "HeatFlowGraph"
    THEN [i \in 1..Len(RawMatrix) |-> [j \in 1..Len(RawMatrix) |->
            IF i = j THEN RawMatrix[i][j] - OutDegree(RawMatrix[i])
            ELSE RawMatrix[i][j]]]
    ELSE RawMatrix

AlignedInput == last.inp.idx = sorted(nodes)

\* C1: whenever the cached matrix is present it equals the matrix compiled
\* from the current node registry and adjacency.
CacheConsistent == M # None => Get(M) = Compiled

\* C2: an add_edge(u, v, w) registers u and v, sets the weight of the pair
\* (u, v) to w and leaves every other ordered pair of the adjacency as it was.
AddEdgeSetsOnlyItsPair ==
    [][last'.op = "add_edge" =>
          /\ {last'.u, last'.v} \subseteq nodes'
          /\ EdgeOf(adj', last'.u, last'.v) = Some(last'.w)
          /\ \A x, y \in Ids :
                << x, y >> # << last'.u, last'.v >>
                    => EdgeOf(adj', x, y) = EdgeOf(adj, x, y)]_vars

\* C3: on a LinearGraph an evolve with an aligned state vector succeeds and
\* leaves a matrix whose entry at (rank u, rank v) is the weight set for
\* (u, v), and 0 in that row where no weight is set.
LinearCompileCorrect ==
    (kind = "LinearGraph" /\ last.op = "evolve" /\ AlignedInput) =>
        /\ last.err = ""
        /\ M # None
        /\ \A u \in DOMAIN adj, v \in nodes :
              Get(M)[Rank(u)][Rank(v)] = WeightOf(adj, u, v)

\* C4: an evolve call that repeats the previous evolve call's (aligned)
\* input on the unchanged graph has the same outcome.
EvolveRepeatable ==
    [][(last.op = "evolve" /\ last'.op = "evolve" /\ last'.inp = last.inp
            /\ AlignedInput /\ nodes' = nodes /\ adj' = adj)
          => (last'.err = last.err /\ last'.out = last.out)]_vars

\* C5 as stated: once a Simulation exists, its state vector's key set is the
\* graph's node id set and its keys are ascending, in every reachable state.
AlignedNow ==
    /\ sim # None
    /\ Range(Get(sim).idx) = nodes
    /\ \A i, j \in 1..Len(Get(sim).idx) : i < j => Get(sim).idx[i] < Get(sim).idx[j]

AlwaysAligned == sim # None => AlignedNow

\* C5 as amended: a successful construction establishes the alignment, and
\* every later call that leaves the graph's node id set as it was (a run, an
\* add_edge or add_node of registered nodes) preserves it.
AlignmentPreserved ==
    [][(\/ last'.op = "construct" /\ last'.err = ""
        \/ AlignedNow /\ nodes' = nodes) => AlignedNow']_vars

AlignmentWitness ==
    /\ AlignedNow
    /\ last.op = "run" /\ last.err = "" /\ last.steps = 2
    /\ Cardinality(nodes) = 2
    /\ Get(sim).vals = << FromInt(0), FromInt(1) >>

\* C6: the constructor raises the alignment error exactly when a registered
\* id is missing from the vector or the vector has an id that is not
\* registered, the ordering error when the key sets agree and the keys are
\* not ascending, and otherwise succeeds and holds the given vector.
ConstructionOutcome ==
    last.op = "construct" =>
        LET keys == Range(last.inp.idx)
            misaligned == \/ \E uid \in nodes : uid \notin keys
                          \/ \E uid \in keys : uid \notin nodes
            unordered == \E i, j \in 1..Len(last.inp.idx) :
                            i < j /\ last.inp.idx[i] > last.inp.idx[j]
        IN  /\ last.err = "AlignmentError" <=> misaligned
            /\ (~misaligned /\ unordered) => last.err = "OrderingError"
            /\ (~misaligned /\ ~unordered) => (last.err = "" /\ sim = Some(last.inp))

ConstructionWitness ==
    /\ last.op = "construct"
    /\ last.err = "OrderingError"
    /\ Len(last.inp.idx) = 2

\* C7: in the oscillator section of the demo the i-th printed state has the
\* value 1 at node a and 0 at node b when i is odd and the reverse when i is
\* even (ids ascending), one state per step; in the eigenstate section every
\* printed state is [1, 1]; neither section raises.
ValueAt(series, uid) ==
    series.vals[CHOOSE i \in 1..Len(series.idx) : series.idx[i] = uid]

OscillatorPcs == {"osc_run", "eig_sim"}
EigenstatePcs == {"eig_run", "heat_new"}

OscillatorPeriodTwo ==
    /\ pc # "crashed"
    /\ pc \in {"osc_run", "eig_run"} => Len(printed) = k + 1
    /\ pc \in {"eig_sim", "heat_new"} => Len(printed) = DemoSteps + 1
    /\ pc \in OscillatorPcs =>
          \A i \in 1..Len(printed) :
              /\ printed[i].idx = sorted({a, b})
              /\ ValueAt(printed[i], a) = FromInt(i % 2)
              /\ ValueAt(printed[i], b) = FromInt((i + 1) % 2)
    /\ pc \in EigenstatePcs =>
          \A i \in 1..Len(printed) :
              printed[i] = Series(sorted({a, b}), << FromInt(1), FromInt(1) >>)

OscillatorWitness ==
    /\ pc = "osc_run"
    /\ a < b
    /\ printed = << Series(<< a, b >>, << FromInt(1), FromInt(0) >>),
                    Series(<< a, b >>, << FromInt(0), FromInt(1) >>),
                    Series(<< a, b >>, << FromInt(1), FromInt(0) >>) >>

\* C8: in the heat-flow section of the demo every printed state sums to 10,
\* no value moves away from 10/3, and for each node the magnitude of a step's
\* change is not larger than that of the step before.
HeatPcs == {"heat_run", "done"}
Third == Rat(HotValue, 3)

HeatFlowConverges ==
    pc \in HeatPcs =>
        \A i \in 1..Len(printed) :
            /\ RSum(printed[i].vals, Len(printed[i].vals)) = FromInt(HotValue)
            /\ i > 1 => \A j \in 1..3 :
                  RLeq(RAbs(RSub(printed[i].vals[j], Third)),
                       RAbs(RSub(printed[i - 1].vals[j], Third)))
            /\ i > 2 => \A j \in 1..3 :
                  RLeq(RAbs(RSub(printed[i].vals[j], printed[i - 1].vals[j])),
                       RAbs(RSub(printed[i - 1].vals[j], printed[i - 2].vals[j])))

\* C9: the value a LinearGraph evolve returns at node v is the sum, over the
\* predecessors u of v, of the weight of the edge u -> v times the input at u
\* (so it depends on the input at the predecessors of v only).
RECURSIVE PredSum(_, _, _)
PredSum(S, v, x) ==
    IF S = {} THEN FromInt(0)
    ELSE LET u == Min(S)
         IN  RAdd(RScale(WeightOf(adj, u, v), ValueAt(x, u)), PredSum(S \ {u}, v, x))

PredecessorsOnly ==
    (kind = "LinearGraph" /\ last.op = "evolve" /\ last.err = "" /\ AlignedInput) =>
        \A v \in nodes :
            ValueAt(last.out, v)
                = PredSum({ u \in nodes : HasEdge(adj, u, v) }, v, last.inp)

\* C10: a HeatFlowGraph evolve with an aligned state vector succeeds and
\* returns at every node i: state[i] + (sum_j M0[i][j]*state[j] - d_i*state[i]) / n.
HeatFlowFormula ==
    (kind = "HeatFlowGraph" /\ last.op = "evolve" /\ AlignedInput) =>
        /\ last.err = ""
        /\ \A i \in 1..Len(last.inp.vals) :
              last.out.vals[i] =
                 RAdd(last.inp.vals[i],
                      RDivInt(RSub(dot(RawMatrix[i], last.inp.vals, Len(last.inp.vals)),
                                   RScale(OutDegree(RawMatrix[i]), last.inp.vals[i])),
                              Cardinality(nodes)))

=============================================================================
